---- MODULE Spec2Model ----
(***************************************************************************)
(* Model of the peer credential provider of sacrificial-socket's ssgrpc    *)
(* backend (backend/ssgrpc/cred.go).                                       *)
(*                                                                         *)
(* perRPCCreds.GetRequestMetadata is modelled statement by statement: each *)
(* goroutine that calls it is a caller with a program counter, the locals  *)
(* tok, exp and sharedKey of the function, and the values it returns.  The *)
(* sync.RWMutex of the credential is modelled as Go implements it: a       *)
(* writer that has called Lock keeps new readers out while it waits for    *)
(* the readers inside to leave, and Unlock admits the readers that were    *)
(* kept out before any later writer.  The clock (time.Now().Unix()) is a   *)
(* variable that only moves forward.  token.GenUserToken is not among the  *)
(* source files; it is taken from the specification (section 4.1).         *)
(*                                                                         *)
(* The second half models the example application's broadcast handler      *)
(* (examples/not-so-simple-examples/grpc-multihome/main.go) on a full mesh *)
(* of three instances.  The socket server and the ssgrpc backend that the  *)
(* handler calls into are not among the source files; their behaviour is   *)
(* taken from the specification (sections 4.4, 4.5 and 5).  The roomcast   *)
(* handler, rooms, and the shared secrets of the instances are part of the *)
(* same mesh.                                                              *)
(***************************************************************************)
EXTENDS Integers, Sequences, FiniteSets, TLC

\* ------------------------------------------------------------------ bounds

\* The clock advances at most this many times in a run.
MaxTicks == 2

\* The same, in the runs checked under fairness.
MaxFairTicks == 1

\* Goroutines calling GetRequestMetadata, and the credentials (one per peer
\* connection) they call it on.
Callers == {"g1", "g2"}
Creds == {"credB", "credC"}

\* Client events handled in a run of the mesh.
MaxEvents == 2

\* The instances of the mesh, every one a peer of every other, and the client
\* sockets connected to each.
Instances == {"A", "B", "C"}
Sockets == {"a1", "b1", "c1", "c2"}
HomeOf(s) ==
    CASE s = "a1" -> "A"
      [] s = "b1" -> "B"
      [] OTHER -> "C"
Events == 1..MaxEvents

\* Client events handled in a run of the mesh with rooms.
MaxRoomEvents == 1

\* The rooms a socket may have joined, and the shared secrets an instance may
\* have been started with (-sharedkey).
Rooms == {"lobby", "den"}
Keys == {"k1", "k2"}

\* Amounts, in seconds, by which the clock advances in one step: a second, and
\* the distance from issuance to the refresh boundary (3600 - 300).
Steps == {1, 3300}

\* -------------------------------------------------------- program constants

\* cred.go:32, the margin before expiry at which a token is reissued.
RefreshMargin == 300

\* cred.go:33, time.Hour in seconds, the lifetime asked of GenUserToken.
TokenTTL == 3600

\* ------------------------------------------------------------------- state

VARIABLES
    now,          \* time.Now().Unix()
    ticks,        \* how many times the clock has advanced
    tokenStr,     \* [Creds -> token]   perRPCCreds.tokenStr
    tokenExpire,  \* [Creds -> Int]     perRPCCreds.tokenExpire
    sharedKey,    \* [Creds -> key]     perRPCCreds.sharedKey
    lReaders,     \* [Creds -> SUBSET Callers]  holders of l.RLock
    lRWait,       \* [Creds -> SUBSET Callers]  blocked in l.RLock behind a writer
    lPending,     \* [Creds -> Callers \cup {None}]  in l.Lock, waiting for readers
    lWriter,      \* [Creds -> Callers \cup {None}]  holder of l.Lock
    credOf,       \* [Callers -> Creds] the receiver c of each caller's calls
    pc,           \* [Callers -> position in GetRequestMetadata]
    tok,          \* local tok
    exp,          \* local exp
    key,          \* local sharedKey
    nowRead,      \* the value time.Now().Unix() gave at line 32
    meta,         \* the map returned (a set of <<key, value>> entries)
    err,          \* "none" while no call has returned, "nil", or "gen"
    minted,       \* the token GenUserToken gave this call, Empty if none
    wrote,        \* whether this call assigned c.tokenExpire / c.tokenStr
    prevFailed,   \* whether the caller's previous call returned an error
    prevExp,      \* the expiry the caller's previous call read at line 25
    expRead,      \* the value line 25 read from c.tokenExpire
    tokRead,      \* the value line 26 read from c.tokenStr
    rtsSeen,      \* the values RequireTransportSecurity has returned
    reachable,    \* [Instances -> BOOLEAN] whether calls to the instance get through
    peerConns,    \* [Instances -> SUBSET Instances] the backend's propagateClients
    nextEv,       \* the next client event
    origin,       \* [Events -> instance whose client sent it, or None]
    tasks,        \* Propagate calls started and not yet made
    wire,         \* Propagate calls accepted by the peer and not yet served
    delivAll,     \* [Instances -> [Events -> Nat]] deliverToAll invocations
    emitted,      \* [Sockets -> [Events -> Nat]] events written to the socket
    logged,       \* Propagate calls that failed and were logged
    raised,       \* failures handed back to the handler that broadcast
    inRoom,       \* [Sockets -> SUBSET Rooms] the rooms each socket has joined
    secret,       \* [Instances -> Keys] the -sharedkey of each instance
    secure,       \* [Instances -> BOOLEAN] whether its backend is the TLS one
    evRoom,       \* [Events -> room a roomcast named, or None]
    delivRoom,    \* [Instances -> [Events -> Nat]] deliverToRoom invocations
    rejected,     \* Propagate calls the peer refused for their token
    mainPc,       \* position of main (main.go:43-104)
    peerList,     \* the -peers flag, a string as a sequence of characters
    insecure,     \* the -insecure flag
    sharedKeyFlag, \* the -sharedkey flag
    handlers,     \* the events registered with s.On, in order
    peers,        \* strings.Split(*peerList, ","), empty before it
    backend,      \* the backend main constructed, NoBackend before it
    attached,     \* s.SetMultihomeBackend(b) has been called
    signalOn,     \* s.EnableSignalShutdown(c) has been called
    routes,       \* the paths registered with http.Handle
    listener,     \* "none", "http" or "https"
    mainLog       \* what main wrote to the error log

credVars == <<tokenStr, tokenExpire, sharedKey, lReaders, lRWait, lPending, lWriter>>
callVars == <<pc, tok, exp, key, nowRead, meta, err, minted, wrote, prevFailed, prevExp,
              expRead, tokRead>>
meshVars == <<reachable, peerConns, nextEv, origin, tasks, wire, delivAll,
              emitted, logged, raised>>
roomVars == <<inRoom, secret, secure, evRoom, delivRoom, rejected>>
credSide == <<now, ticks, credVars, credOf, callVars, rtsSeen>>
mainVars == <<mainPc, peerList, insecure, sharedKeyFlag, handlers, peers,
              backend, attached, signalOn, routes, listener, mainLog>>
vars == <<credSide, meshVars, roomVars, mainVars>>

None == "none"

\* The empty string, and a signed token: what GenUserToken encodes in it is its
\* expiry and the key that signed it.
Empty == << >>
Token(e, k) == <<"jwt", e, k>>
EncodedExp(t) == IF t = Empty THEN 0 ELSE t[2]
SignedWith(t) == IF t = Empty THEN None ELSE t[3]

\* "Bearer " + tok
Bearer(t) == <<"Bearer ">> \o t

\* meta := make(map[string]string); meta["authorization"] = "Bearer " + tok
EmptyMeta == {}
AuthMeta(t) == {<<"authorization", Bearer(t)>>}

\* Variants of the comparison of line 32: the boundary included, and the margin
\* left out.
NeedsRefreshAtBoundary(e, t) == e - 300 <= t
NeedsRefreshNoMargin(e, t) == e < t

\* cred.go:32
NeedsRefresh(e, t) == e - 300 < t

\* token.GenUserToken(subject, ttl, key) at clock value t: the claims' EXP and
\* the signed string.
GenUserToken(ttl, k, t) == [EXP |-> t + ttl, str |-> Token(t + ttl, k)]

\* Variant of the error path that falls back to the token read earlier.
ErrMetaFallback(m, t) == m \cup AuthMeta(t)

\* cred.go:36, what the error path returns.
ErrMeta(m, t) == m

\* Variant that lets the credential be used on any transport.
RequireTransportSecurityOff(c) == FALSE

\* cred.go:55-57
RequireTransportSecurity(c) == TRUE

\* Variants of the handler: one that broadcasts twice, one that only echoes to
\* the sending socket.
BroadcastTwice == << [op |-> "Broadcast", event |-> "broadcast"],
                     [op |-> "Broadcast", event |-> "broadcast"] >>
BroadcastAsEmit == << [op |-> "Emit", event |-> "broadcast"] >>

\* main.go:182-184  func Broadcast(s, data): the calls its body makes on the
\* socket, in order.
Broadcast == << [op |-> "Broadcast", event |-> "broadcast"] >>

\* Variant of the roomcast handler that broadcasts instead.
RoomcastAsBroadcast == << [op |-> "Broadcast", event |-> "roomcast"] >>

\* main.go:158-164  func Roomcast(s, data): the calls its body makes on the
\* socket, in order (the room is the one the client's message names).
Roomcast == << [op |-> "Roomcast", event |-> "roomcast"] >>

\* The positions in a handler's calls that are s.Broadcast / s.Roomcast /
\* s.Emit.
BroadcastCalls(calls) == {n \in DOMAIN calls : calls[n].op = "Broadcast"}
RoomcastCalls(calls) == {n \in DOMAIN calls : calls[n].op = "Roomcast"}
EmitCalls(calls) == {n \in DOMAIN calls : calls[n].op = "Emit"}

\* Variant of main.go:75-79 that builds the insecure backend whatever the flag.
BackendModeAlwaysInsecure(insecureFlag) == "insecure"

\* main.go:75-79  if *insecure { NewInsecureBackend } else { NewBackend }
BackendMode(insecureFlag) == IF insecureFlag THEN "insecure" ELSE "tls"

\* What the backend hands back to the broadcasting handler when a Propagate
\* call fails: nothing, the failure is only logged.
RaisedOnFailure(t) == {}

\* ------------------------------------------------------------------- Init

\* The mesh once every instance has run main up to its listener: each backend
\* holds one propagateClient per peer, and nothing has been sent.
MeshStart ==
    /\ peerConns = [i \in Instances |-> Instances \ {i}]
    /\ nextEv = 1
    /\ origin = [e \in Events |-> None]
    /\ tasks = {}
    /\ wire = {}
    /\ delivAll = [i \in Instances |-> [e \in Events |-> 0]]
    /\ emitted = [s \in Sockets |-> [e \in Events |-> 0]]
    /\ logged = {}
    /\ raised = {}
    /\ secure = [i \in Instances |-> BackendMode(FALSE) = "tls"]
    /\ evRoom = [e \in Events |-> None]
    /\ delivRoom = [i \in Instances |-> [e \in Events |-> 0]]
    /\ rejected = {}

CredStart ==
    /\ now = 0
    /\ ticks = 0
    /\ tokenStr = [c \in Creds |-> Empty]
    /\ tokenExpire = [c \in Creds |-> 0]
    /\ sharedKey = [c \in Creds |-> "k1"]
    /\ lReaders = [c \in Creds |-> {}]
    /\ lRWait = [c \in Creds |-> {}]
    /\ lPending = [c \in Creds |-> None]
    /\ lWriter = [c \in Creds |-> None]
    /\ pc = [p \in Callers |-> "idle"]
    /\ tok = [p \in Callers |-> Empty]
    /\ exp = [p \in Callers |-> 0]
    /\ key = [p \in Callers |-> None]
    /\ nowRead = [p \in Callers |-> 0]
    /\ meta = [p \in Callers |-> EmptyMeta]
    /\ err = [p \in Callers |-> "none"]
    /\ minted = [p \in Callers |-> Empty]
    /\ wrote = [p \in Callers |-> FALSE]
    /\ prevFailed = [p \in Callers |-> FALSE]
    /\ prevExp = [p \in Callers |-> 0]
    /\ expRead = [p \in Callers |-> 0]
    /\ tokRead = [p \in Callers |-> Empty]
    /\ rtsSeen = {}

\* main.go:50-63  the events main registers with s.On, in order.
HandlerEvents ==
    << "echo", "echobin", "echojson", "join", "leave",
       "socketcast", "socketcastbin", "socketcastjson",
       "roomcast", "roomcastbin", "roomcastjson",
       "broadcast", "broadcastbin", "broadcastjson" >>

\* The values of the -peers flag: the default (the empty string), one peer,
\* and two peers separated by a comma.
PeerLists == { << >>, << "b" >>, << "b", ",", "c" >> }

\* main.go:71  strings.Split(s, ","): the pieces of s between the commas; one
\* piece, the empty string, when s is empty.
RECURSIVE SplitFrom(_, _)
SplitFrom(s, piece) ==
    IF s = << >> THEN << piece >>
    ELSE IF Head(s) = "," THEN << piece >> \o SplitFrom(Tail(s), << >>)
    ELSE SplitFrom(Tail(s), Append(piece, Head(s)))
Split(s) == SplitFrom(s, << >>)

\* Variant of line 65 that never finds the peer list missing.
PeersMissingNever(pl) == FALSE

\* main.go:65  *peerList == ""
PeersMissing(pl) == pl = << >>

\* main.go:94-98  if *insecure { ListenAndServe } else { ListenAndServeTLS }
ListenerMode(insecureFlag) == IF insecureFlag THEN "http" ELSE "https"

\* main.go:73  var b ss.MultihomeBackend
NoBackend == [kind |-> "none", key |-> None, peers |-> << >>]

\* main.go:76  ssgrpc.NewInsecureBackend(*grpcHostPort, peers)
NewInsecureBackend(ps) == [kind |-> "insecure", key |-> None, peers |-> ps]

\* main.go:78  ssgrpc.NewBackend(*key, *cert, *grpcHostPort, []byte(*sharedKey), peers)
NewBackend(k, ps) == [kind |-> "tls", key |-> k, peers |-> ps]

\* main.go:43  main has been entered and nothing has run yet.
MainStart ==
    /\ mainPc = "parse"
    /\ handlers = << >>
    /\ peers = << >>
    /\ backend = NoBackend
    /\ attached = FALSE
    /\ signalOn = FALSE
    /\ routes = {}
    /\ listener = "none"
    /\ mainLog = << >>

\* main.go:33-41  the flags as they are when none is given.
MainInit ==
    /\ MainStart
    /\ peerList = << >>
    /\ insecure = FALSE
    /\ sharedKeyFlag = "k1"

\* Every caller calls the credential of the connection to peer B.
CredInit ==
    /\ CredStart
    /\ credOf = [p \in Callers |-> "credB"]

\* The runs over two peer connections: each caller calls the credential of
\* either connection, each credential having its own fields and its own lock.
PeerInit ==
    /\ CredStart
    /\ credOf \in [Callers -> Creds]
    /\ MeshStart
    /\ MainInit
    /\ reachable = [i \in Instances |-> TRUE]
    /\ inRoom = [s \in Sockets |-> {}]
    /\ secret = [i \in Instances |-> "k1"]

\* The credential's runs: every caller calls the same credential, and the mesh
\* stays as it started.
Init ==
    /\ CredInit
    /\ MeshStart
    /\ MainInit
    /\ reachable = [i \in Instances |-> TRUE]
    /\ inRoom = [s \in Sockets |-> {}]
    /\ secret = [i \in Instances |-> "k1"]

\* The mesh's runs: any set of instances may be out of reach.
MeshInit ==
    /\ CredInit
    /\ MeshStart
    /\ MainInit
    /\ reachable \in [Instances -> BOOLEAN]
    /\ inRoom = [s \in Sockets |-> {}]
    /\ secret = [i \in Instances |-> "k1"]

\* The runs with rooms: every instance in reach, the same secret everywhere,
\* and any membership of the sockets in the rooms.
RoomInit ==
    /\ CredInit
    /\ MeshStart
    /\ MainInit
    /\ reachable = [i \in Instances |-> TRUE]
    /\ inRoom \in [Sockets -> SUBSET Rooms]
    /\ secret = [i \in Instances |-> "k1"]

\* The runs with secrets: every instance in reach, and any assignment of
\* secrets to the instances.
AuthInit ==
    /\ CredInit
    /\ MeshStart
    /\ MainInit
    /\ reachable = [i \in Instances |-> TRUE]
    /\ inRoom = [s \in Sockets |-> {}]
    /\ secret \in [Instances -> Keys]

\* ---------------------------------------------------------------- actions

\* The clock moves forward.
Tick ==
    /\ ticks < MaxTicks
    /\ \E d \in Steps : now' = now + d
    /\ ticks' = ticks + 1
    /\ UNCHANGED <<credVars, credOf, callVars, rtsSeen, meshVars, roomVars, mainVars>>

\* cred.go:19-22: a call begins; var tok string, var exp int64, var sharedKey.
StartCall(p) ==
    /\ pc[p] = "idle"
    /\ pc' = [pc EXCEPT ![p] = "rlock"]
    /\ tok' = [tok EXCEPT ![p] = Empty]
    /\ exp' = [exp EXCEPT ![p] = 0]
    /\ key' = [key EXCEPT ![p] = None]
    /\ nowRead' = [nowRead EXCEPT ![p] = 0]
    /\ meta' = [meta EXCEPT ![p] = EmptyMeta]
    /\ err' = [err EXCEPT ![p] = "none"]
    /\ minted' = [minted EXCEPT ![p] = Empty]
    /\ wrote' = [wrote EXCEPT ![p] = FALSE]
    /\ prevFailed' = [prevFailed EXCEPT ![p] = (err[p] = "gen")]
    /\ prevExp' = [prevExp EXCEPT ![p] = expRead[p]]
    /\ expRead' = [expRead EXCEPT ![p] = 0]
    /\ tokRead' = [tokRead EXCEPT ![p] = Empty]
    /\ UNCHANGED <<now, ticks, credVars, credOf, rtsSeen, meshVars, roomVars, mainVars>>

\* A writer has called l.Lock and has not yet called l.Unlock.
WriterAnnounced(c) == lPending[c] # None \/ lWriter[c] # None

\* Variant of line 24 that does not wait for the writer.
RLockIgnoringWriter(p) ==
    /\ pc[p] = "rlock"
    /\ lReaders' = [lReaders EXCEPT ![credOf[p]] = @ \cup {p}]
    /\ pc' = [pc EXCEPT ![p] = "readExp"]
    /\ UNCHANGED <<now, ticks, tokenStr, tokenExpire, sharedKey, lRWait, lPending, lWriter, credOf,
                   tok, exp, key, nowRead, meta, err, minted, wrote, prevFailed, prevExp, expRead, tokRead, rtsSeen, meshVars, roomVars, mainVars>>

\* cred.go:24  c.l.RLock(): no writer has announced itself, the read lock is
\* taken; otherwise the caller blocks until that writer's Unlock admits it.
RLock(p) ==
    /\ pc[p] = "rlock"
    /\ IF WriterAnnounced(credOf[p])
          THEN /\ lRWait' = [lRWait EXCEPT ![credOf[p]] = @ \cup {p}]
               /\ pc' = [pc EXCEPT ![p] = "rlockWait"]
               /\ UNCHANGED lReaders
          ELSE /\ lReaders' = [lReaders EXCEPT ![credOf[p]] = @ \cup {p}]
               /\ pc' = [pc EXCEPT ![p] = "readExp"]
               /\ UNCHANGED lRWait
    /\ UNCHANGED <<now, ticks, tokenStr, tokenExpire, sharedKey, lPending, lWriter, credOf,
                   tok, exp, key, nowRead, meta, err, minted, wrote, prevFailed, prevExp, expRead, tokRead, rtsSeen, meshVars, roomVars, mainVars>>

\* cred.go:24  c.l.RLock() returns to a caller that was blocked, once the
\* writer's Unlock has made it a reader.
RLockWake(p) ==
    /\ pc[p] = "rlockWait"
    /\ p \in lReaders[credOf[p]]
    /\ pc' = [pc EXCEPT ![p] = "readExp"]
    /\ UNCHANGED <<now, ticks, credVars, credOf,
                   tok, exp, key, nowRead, meta, err, minted, wrote, prevFailed, prevExp, expRead, tokRead, rtsSeen, meshVars, roomVars, mainVars>>

\* cred.go:25  exp = c.tokenExpire
ReadExp(p) ==
    /\ pc[p] = "readExp"
    /\ exp' = [exp EXCEPT ![p] = tokenExpire[credOf[p]]]
    /\ expRead' = [expRead EXCEPT ![p] = tokenExpire[credOf[p]]]
    /\ pc' = [pc EXCEPT ![p] = "readTok"]
    /\ UNCHANGED <<now, ticks, credVars, credOf,
                   tok, key, nowRead, meta, err, minted, wrote, prevFailed, prevExp, tokRead, rtsSeen, meshVars, roomVars, mainVars>>

\* cred.go:26  tok = c.tokenStr
ReadTok(p) ==
    /\ pc[p] = "readTok"
    /\ tok' = [tok EXCEPT ![p] = tokenStr[credOf[p]]]
    /\ tokRead' = [tokRead EXCEPT ![p] = tokenStr[credOf[p]]]
    /\ pc' = [pc EXCEPT ![p] = "readKey"]
    /\ UNCHANGED <<now, ticks, credVars, credOf,
                   exp, key, nowRead, meta, err, minted, wrote, prevFailed, prevExp, expRead, rtsSeen, meshVars, roomVars, mainVars>>

\* cred.go:27  sharedKey = c.sharedKey
ReadKey(p) ==
    /\ pc[p] = "readKey"
    /\ key' = [key EXCEPT ![p] = sharedKey[credOf[p]]]
    /\ pc' = [pc EXCEPT ![p] = "runlock"]
    /\ UNCHANGED <<now, ticks, credVars, credOf,
                   tok, exp, nowRead, meta, err, minted, wrote, prevFailed, prevExp, expRead, tokRead, rtsSeen, meshVars, roomVars, mainVars>>

\* Variant of line 28 that returns from the read section with the read lock
\* still held.
RUnlockKeepsLock(p) ==
    /\ pc[p] = "runlock"
    /\ pc' = [pc EXCEPT ![p] = "check"]
    /\ UNCHANGED <<now, ticks, credVars, credOf,
                   tok, exp, key, nowRead, meta, err, minted, wrote, prevFailed, prevExp, expRead, tokRead, rtsSeen, meshVars, roomVars, mainVars>>

\* cred.go:28  c.l.RUnlock()
RUnlock(p) ==
    /\ pc[p] = "runlock"
    /\ lReaders' = [lReaders EXCEPT ![credOf[p]] = @ \ {p}]
    /\ pc' = [pc EXCEPT ![p] = "check"]
    /\ UNCHANGED <<now, ticks, tokenStr, tokenExpire, sharedKey, lRWait, lPending, lWriter, credOf,
                   tok, exp, key, nowRead, meta, err, minted, wrote, prevFailed, prevExp, expRead, tokRead, rtsSeen, meshVars, roomVars, mainVars>>

\* cred.go:30-32  meta := make(...); if exp-300 < time.Now().Unix()
CheckExpiry(p) ==
    /\ pc[p] = "check"
    /\ nowRead' = [nowRead EXCEPT ![p] = now]
    /\ meta' = [meta EXCEPT ![p] = EmptyMeta]
    /\ pc' = [pc EXCEPT ![p] = IF NeedsRefresh(exp[p], now) THEN "gen" ELSE "ret"]
    /\ UNCHANGED <<now, ticks, credVars, credOf,
                   tok, exp, key, err, minted, wrote, prevFailed, prevExp, expRead, tokRead, rtsSeen, meshVars, roomVars, mainVars>>

\* Variant of lines 39-40 that leaves out tok = t.
GenOkKeepsTok(p) ==
    /\ pc[p] = "gen"
    /\ LET g == GenUserToken(TokenTTL, key[p], now) IN
        /\ exp' = [exp EXCEPT ![p] = g.EXP]
        /\ minted' = [minted EXCEPT ![p] = g.str]
    /\ pc' = [pc EXCEPT ![p] = "lock"]
    /\ UNCHANGED <<now, ticks, credVars, credOf, tok,
                   key, nowRead, meta, err, wrote, prevFailed, prevExp, expRead, tokRead, rtsSeen, meshVars, roomVars, mainVars>>

\* cred.go:33, 39-40  GenUserToken succeeds; exp = u.EXP; tok = t
GenOk(p) ==
    /\ pc[p] = "gen"
    /\ LET g == GenUserToken(TokenTTL, key[p], now) IN
        /\ exp' = [exp EXCEPT ![p] = g.EXP]
        /\ tok' = [tok EXCEPT ![p] = g.str]
        /\ minted' = [minted EXCEPT ![p] = g.str]
    /\ pc' = [pc EXCEPT ![p] = "lock"]
    /\ UNCHANGED <<now, ticks, credVars, credOf,
                   key, nowRead, meta, err, wrote, prevFailed, prevExp, expRead, tokRead, rtsSeen, meshVars, roomVars, mainVars>>

\* Variant of lines 34-37 that clears the stored token before returning the
\* error.
GenFailClearsToken(p) ==
    /\ pc[p] = "gen"
    /\ meta' = [meta EXCEPT ![p] = ErrMeta(meta[p], tok[p])]
    /\ err' = [err EXCEPT ![p] = "gen"]
    /\ pc' = [pc EXCEPT ![p] = "idle"]
    /\ tokenStr' = [tokenStr EXCEPT ![credOf[p]] = Empty]
    /\ UNCHANGED <<now, ticks, tokenExpire, sharedKey, lReaders, lRWait, lPending, lWriter, credOf,
                   tok, exp, key, nowRead, minted, wrote, prevFailed, prevExp, expRead, tokRead, rtsSeen, meshVars, roomVars, mainVars>>

\* cred.go:33-37  GenUserToken fails; return meta, err
GenFail(p) ==
    /\ pc[p] = "gen"
    /\ meta' = [meta EXCEPT ![p] = ErrMeta(meta[p], tok[p])]
    /\ err' = [err EXCEPT ![p] = "gen"]
    /\ pc' = [pc EXCEPT ![p] = "idle"]
    /\ UNCHANGED <<now, ticks, credVars, credOf,
                   tok, exp, key, nowRead, minted, wrote, prevFailed, prevExp, expRead, tokRead, rtsSeen, meshVars, roomVars, mainVars>>

\* Variant of line 42 that does not exclude another writer.
LockNotExclusive(p) ==
    /\ pc[p] = "lock"
    /\ lReaders[credOf[p]] = {}
    /\ lWriter' = [lWriter EXCEPT ![credOf[p]] = p]
    /\ pc' = [pc EXCEPT ![p] = "writeExp"]
    /\ UNCHANGED <<now, ticks, tokenStr, tokenExpire, sharedKey, lReaders, lRWait, lPending, credOf,
                   tok, exp, key, nowRead, meta, err, minted, wrote, prevFailed, prevExp, expRead, tokRead, rtsSeen, meshVars, roomVars, mainVars>>

\* cred.go:42  c.l.Lock(): once no other writer has announced itself the
\* caller announces itself; it has the lock at once if no reader is inside and
\* otherwise waits for the readers inside to leave.
Lock(p) ==
    /\ pc[p] = "lock"
    /\ ~WriterAnnounced(credOf[p])
    /\ IF lReaders[credOf[p]] = {}
          THEN /\ lWriter' = [lWriter EXCEPT ![credOf[p]] = p]
               /\ pc' = [pc EXCEPT ![p] = "writeExp"]
               /\ UNCHANGED lPending
          ELSE /\ lPending' = [lPending EXCEPT ![credOf[p]] = p]
               /\ pc' = [pc EXCEPT ![p] = "lockWait"]
               /\ UNCHANGED lWriter
    /\ UNCHANGED <<now, ticks, tokenStr, tokenExpire, sharedKey, lReaders, lRWait, credOf,
                   tok, exp, key, nowRead, meta, err, minted, wrote, prevFailed, prevExp, expRead, tokRead, rtsSeen, meshVars, roomVars, mainVars>>

\* cred.go:42  c.l.Lock() returns to the waiting writer when the last reader
\* inside has left.
LockWake(p) ==
    /\ pc[p] = "lockWait"
    /\ lPending[credOf[p]] = p
    /\ lReaders[credOf[p]] = {}
    /\ lPending' = [lPending EXCEPT ![credOf[p]] = None]
    /\ lWriter' = [lWriter EXCEPT ![credOf[p]] = p]
    /\ pc' = [pc EXCEPT ![p] = "writeExp"]
    /\ UNCHANGED <<now, ticks, tokenStr, tokenExpire, sharedKey, lReaders, lRWait, credOf,
                   tok, exp, key, nowRead, meta, err, minted, wrote, prevFailed, prevExp, expRead, tokRead, rtsSeen, meshVars, roomVars, mainVars>>

\* Variant of line 43 in which the expiry is one value shared by every
\* credential.
WriteExpAllCreds(p) ==
    /\ pc[p] = "writeExp"
    /\ tokenExpire' = [c \in Creds |-> exp[p]]
    /\ wrote' = [wrote EXCEPT ![p] = TRUE]
    /\ pc' = [pc EXCEPT ![p] = "writeTok"]
    /\ UNCHANGED <<now, ticks, tokenStr, sharedKey, lReaders, lRWait, lPending, lWriter, credOf,
                   tok, exp, key, nowRead, meta, err, minted, prevFailed, prevExp, expRead, tokRead, rtsSeen, meshVars, roomVars, mainVars>>

\* cred.go:43  c.tokenExpire = exp
WriteExp(p) ==
    /\ pc[p] = "writeExp"
    /\ tokenExpire' = [tokenExpire EXCEPT ![credOf[p]] = exp[p]]
    /\ wrote' = [wrote EXCEPT ![p] = TRUE]
    /\ pc' = [pc EXCEPT ![p] = "writeTok"]
    /\ UNCHANGED <<now, ticks, tokenStr, sharedKey, lReaders, lRWait, lPending, lWriter, credOf,
                   tok, exp, key, nowRead, meta, err, minted, prevFailed, prevExp, expRead, tokRead, rtsSeen, meshVars, roomVars, mainVars>>

\* cred.go:44  c.tokenStr = tok
WriteTok(p) ==
    /\ pc[p] = "writeTok"
    /\ tokenStr' = [tokenStr EXCEPT ![credOf[p]] = tok[p]]
    /\ pc' = [pc EXCEPT ![p] = "unlock"]
    /\ UNCHANGED <<now, ticks, tokenExpire, sharedKey, lReaders, lRWait, lPending, lWriter, credOf,
                   tok, exp, key, nowRead, meta, err, minted, wrote, prevFailed, prevExp, expRead, tokRead, rtsSeen, meshVars, roomVars, mainVars>>

\* cred.go:45-47  c.l.Unlock(); log "token refreshed".  The readers that were
\* kept out become readers.
Unlock(p) ==
    /\ pc[p] = "unlock"
    /\ lWriter' = [lWriter EXCEPT ![credOf[p]] = None]
    /\ lReaders' = [lReaders EXCEPT ![credOf[p]] = @ \cup lRWait[credOf[p]]]
    /\ lRWait' = [lRWait EXCEPT ![credOf[p]] = {}]
    /\ pc' = [pc EXCEPT ![p] = "ret"]
    /\ UNCHANGED <<now, ticks, tokenStr, tokenExpire, sharedKey, lPending, credOf,
                   tok, exp, key, nowRead, meta, err, minted, wrote, prevFailed, prevExp, expRead, tokRead, rtsSeen, meshVars, roomVars, mainVars>>

\* cred.go:50-52  meta["authorization"] = "Bearer " + tok; return meta, nil
Return(p) ==
    /\ pc[p] = "ret"
    /\ meta' = [meta EXCEPT ![p] = meta[p] \cup AuthMeta(tok[p])]
    /\ err' = [err EXCEPT ![p] = "nil"]
    /\ pc' = [pc EXCEPT ![p] = "idle"]
    /\ UNCHANGED <<now, ticks, credVars, credOf,
                   tok, exp, key, nowRead, minted, wrote, prevFailed, prevExp, expRead, tokRead, rtsSeen, meshVars, roomVars, mainVars>>

\* The steps of a call once it has begun.
Step(p) ==
    \/ RLock(p) \/ RLockWake(p)
    \/ ReadExp(p) \/ ReadTok(p) \/ ReadKey(p) \/ RUnlock(p)
    \/ CheckExpiry(p) \/ GenOk(p) \/ GenFail(p)
    \/ Lock(p) \/ LockWake(p)
    \/ WriteExp(p) \/ WriteTok(p) \/ Unlock(p) \/ Return(p)

\* cred.go:55-57: gRPC asks the credential whether it needs a secure transport.
AskTransportSecurity(p) ==
    /\ rtsSeen' = rtsSeen \cup {RequireTransportSecurity(credOf[p])}
    /\ UNCHANGED <<now, ticks, credVars, credOf, callVars, meshVars, roomVars, mainVars>>

Next ==
    \/ Tick
    \/ \E p \in Callers : StartCall(p)
    \/ \E p \in Callers : Step(p)
    \/ \E p \in Callers : AskTransportSecurity(p)

Spec == Init /\ [][Next]_vars

\* ------------------------------------------------------------------- mesh

\* The key that signs the token a call from instance a carries: the backend's
\* credentials hold the instance's shared secret (main.go:78, cred.go:27, 33);
\* the insecure backend attaches no token.
AttachedKey(a) == IF secure[a] THEN secret[a] ELSE None

\* The handler of a client event of socket s runs and makes `calls` on the
\* socket, r being the room the client named.  Each s.Broadcast delivers to
\* every local socket, each s.Roomcast to every local member of r, and each of
\* the two starts one Propagate call per propagateClient of the instance's
\* backend; each s.Emit writes to the sending socket only.
Handle(s, calls, r) ==
    LET a == HomeOf(s)
        e == nextEv
        nb == Cardinality(BroadcastCalls(calls))
        nr == Cardinality(RoomcastCalls(calls))
        ne == Cardinality(EmitCalls(calls))
    IN  /\ nextEv' = nextEv + 1
        /\ origin' = [origin EXCEPT ![e] = a]
        /\ evRoom' = [evRoom EXCEPT ![e] = r]
        /\ delivAll' = [delivAll EXCEPT ![a][e] = @ + nb]
        /\ delivRoom' = [delivRoom EXCEPT ![a][e] = @ + nr]
        /\ emitted' = [x \in Sockets |->
                          [emitted[x] EXCEPT ![e] =
                              @ + (IF HomeOf(x) = a THEN nb ELSE 0)
                                + (IF HomeOf(x) = a /\ r \in inRoom[x]
                                     THEN nr ELSE 0)
                                + (IF x = s THEN ne ELSE 0)]]
        /\ tasks' = tasks \cup
                      {[from |-> a, to |-> b, ev |-> e, n |-> n,
                        kind |-> calls[n].op,
                        target |-> IF calls[n].op = "Roomcast" THEN r ELSE None,
                        key |-> AttachedKey(a)] :
                          b \in peerConns[a],
                          n \in BroadcastCalls(calls) \cup RoomcastCalls(calls)}
        /\ UNCHANGED <<reachable, peerConns, wire, logged, raised, credSide, mainVars,
                       inRoom, secret, secure, rejected>>

\* A client socket s sends a "broadcast" event: the handler of main.go:182
\* runs.
HandleBroadcast(s) ==
    /\ nextEv <= MaxEvents
    /\ Handle(s, Broadcast, None)

\* A client socket s sends a "roomcast" event that names room r: the handler
\* of main.go:158 runs.
HandleRoomcast(s, r) ==
    /\ nextEv <= MaxRoomEvents
    /\ Handle(s, Roomcast, r)

\* One Propagate call of the fan-out is made: the peer accepts it, or it is out
\* of reach and the failure is logged.  The other calls go on either way.
CallPeer(t) ==
    /\ t \in tasks
    /\ tasks' = tasks \ {t}
    /\ IF reachable[t.to]
          THEN /\ wire' = wire \cup {t}
               /\ UNCHANGED <<logged, raised>>
          ELSE /\ logged' = logged \cup {t}
               /\ raised' = raised \cup RaisedOnFailure(t)
               /\ UNCHANGED wire
    /\ UNCHANGED <<reachable, peerConns, nextEv, origin, delivAll, emitted,
                   credSide, mainVars, roomVars>>

\* The peer's Token Authority accepts the call's token: it was signed with the
\* peer's own secret (an insecure backend asks for none).
Authorized(m) == ~secure[m.to] \/ m.key = secret[m.to]

\* The peer serves a Propagate call whose token it accepts: kind Broadcast is
\* delivered to every local socket, kind Room to every local member of the
\* room; it propagates nothing.
ServePropagate(m) ==
    /\ m \in wire
    /\ Authorized(m)
    /\ wire' = wire \ {m}
    /\ IF m.kind = "Broadcast"
          THEN /\ delivAll' = [delivAll EXCEPT ![m.to][m.ev] = @ + 1]
               /\ emitted' = [x \in Sockets |->
                                 [emitted[x] EXCEPT ![m.ev] =
                                     @ + (IF HomeOf(x) = m.to THEN 1 ELSE 0)]]
               /\ UNCHANGED delivRoom
          ELSE /\ delivRoom' = [delivRoom EXCEPT ![m.to][m.ev] = @ + 1]
               /\ emitted' = [x \in Sockets |->
                                 [emitted[x] EXCEPT ![m.ev] =
                                     @ + (IF HomeOf(x) = m.to
                                             /\ m.target \in inRoom[x]
                                          THEN 1 ELSE 0)]]
               /\ UNCHANGED delivAll
    /\ UNCHANGED <<reachable, peerConns, nextEv, origin, tasks, logged, raised,
                   credSide, mainVars, inRoom, secret, secure, evRoom, rejected>>

\* The peer refuses a Propagate call whose token it does not accept: the call
\* fails and nothing is delivered for it.
RejectPropagate(m) ==
    /\ m \in wire
    /\ ~Authorized(m)
    /\ wire' = wire \ {m}
    /\ rejected' = rejected \cup {m}
    /\ UNCHANGED <<reachable, peerConns, nextEv, origin, tasks, delivAll,
                   emitted, logged, raised, credSide, mainVars,
                   inRoom, secret, secure, evRoom, delivRoom>>

MeshNext ==
    \/ \E s \in Sockets : HandleBroadcast(s)
    \/ \E t \in tasks : CallPeer(t)
    \/ \E m \in wire : ServePropagate(m)

MeshSpec == MeshInit /\ [][MeshNext]_vars

RoomNext ==
    \/ \E s \in Sockets : \E r \in Rooms : HandleRoomcast(s, r)
    \/ \E t \in tasks : CallPeer(t)
    \/ \E m \in wire : ServePropagate(m)

RoomSpec == RoomInit /\ [][RoomNext]_vars

AuthNext ==
    \/ \E s \in Sockets : HandleBroadcast(s)
    \/ \E t \in tasks : CallPeer(t)
    \/ \E m \in wire : ServePropagate(m)
    \/ \E m \in wire : RejectPropagate(m)

AuthSpec == AuthInit /\ [][AuthNext]_vars

\* The runs checked under fairness: the goroutine scheduler runs every
\* goroutine that can take a step, and of the writers that contend for the
\* mutex inside l.Lock none is passed over for ever (sync.Mutex hands the lock
\* to a waiter that has been starved).  Whether a new call begins and whether
\* the clock advances is up to the environment.
FairTick == ticks < MaxFairTicks /\ Tick

FairNext ==
    \/ FairTick
    \/ \E p \in Callers : StartCall(p)
    \/ \E p \in Callers : Step(p)

Fairness ==
    \A p \in Callers :
        /\ WF_vars(Step(p))
        /\ SF_vars(Lock(p))

FairSpec == Init /\ [][FairNext]_vars /\ Fairness

PeerSpec == PeerInit /\ [][FairNext]_vars

(***************************************************************************)
(* main of the grpc-multihome example (main.go:43-104), one step per       *)
(* statement group.                                                        *)
(***************************************************************************)

\* The runs of main: any value of the flags -peers, -insecure and -sharedkey.
StartupInit ==
    /\ CredInit
    /\ MeshStart
    /\ reachable = [i \in Instances |-> TRUE]
    /\ inRoom = [s \in Sockets |-> {}]
    /\ secret = [i \in Instances |-> "k1"]
    /\ MainStart
    /\ peerList \in PeerLists
    /\ insecure \in BOOLEAN
    /\ sharedKeyFlag \in Keys

\* main.go:44-48  flag.Parse(); the logger; s := ss.NewServer()
ParseFlags ==
    /\ mainPc = "parse"
    /\ mainPc' = "register"
    /\ UNCHANGED <<peerList, insecure, sharedKeyFlag, handlers, peers, backend,
                   attached, signalOn, routes, listener, mainLog,
                   credSide, meshVars, roomVars>>

\* main.go:50-63  the next s.On(event, handler)
RegisterHandler ==
    /\ mainPc = "register"
    /\ handlers' = Append(handlers, HandlerEvents[Len(handlers) + 1])
    /\ mainPc' = IF Len(handlers) + 1 = Len(HandlerEvents)
                   THEN "checkPeers" ELSE "register"
    /\ UNCHANGED <<peerList, insecure, sharedKeyFlag, peers, backend,
                   attached, signalOn, routes, listener, mainLog,
                   credSide, meshVars, roomVars>>

\* main.go:65-69  without peers main logs the error and returns.
CheckPeers ==
    /\ mainPc = "checkPeers"
    /\ IF PeersMissing(peerList)
          THEN /\ mainLog' = Append(mainLog, "must provide peers to connect to")
               /\ mainPc' = "returned"
          ELSE /\ mainPc' = "split"
               /\ UNCHANGED mainLog
    /\ UNCHANGED <<peerList, insecure, sharedKeyFlag, handlers, peers, backend,
                   attached, signalOn, routes, listener,
                   credSide, meshVars, roomVars>>

\* main.go:71  peers := strings.Split(*peerList, ",")
SplitPeers ==
    /\ mainPc = "split"
    /\ peers' = Split(peerList)
    /\ mainPc' = "newBackend"
    /\ UNCHANGED <<peerList, insecure, sharedKeyFlag, handlers, backend,
                   attached, signalOn, routes, listener, mainLog,
                   credSide, meshVars, roomVars>>

\* main.go:75-79  the backend the -insecure flag selects is constructed.
ConstructBackend ==
    /\ mainPc = "newBackend"
    /\ backend' = IF BackendMode(insecure) = "insecure"
                    THEN NewInsecureBackend(peers)
                    ELSE NewBackend(sharedKeyFlag, peers)
    /\ mainPc' = "setBackend"
    /\ UNCHANGED <<peerList, insecure, sharedKeyFlag, handlers, peers,
                   attached, signalOn, routes, listener, mainLog,
                   credSide, meshVars, roomVars>>

\* main.go:81  s.SetMultihomeBackend(b)
SetMultihomeBackend ==
    /\ mainPc = "setBackend"
    /\ attached' = TRUE
    /\ mainPc' = "signal"
    /\ UNCHANGED <<peerList, insecure, sharedKeyFlag, handlers, peers, backend,
                   signalOn, routes, listener, mainLog,
                   credSide, meshVars, roomVars>>

\* main.go:83-89  s.EnableSignalShutdown(c) and the goroutine that waits on c
EnableSignalShutdown ==
    /\ mainPc = "signal"
    /\ signalOn' = TRUE
    /\ mainPc' = "handle"
    /\ UNCHANGED <<peerList, insecure, sharedKeyFlag, handlers, peers, backend,
                   attached, routes, listener, mainLog,
                   credSide, meshVars, roomVars>>

\* main.go:91-92  http.Handle("/socket", s); http.Handle("/", file server)
HandleRoutes ==
    /\ mainPc = "handle"
    /\ routes' = {"/socket", "/"}
    /\ mainPc' = "listen"
    /\ UNCHANGED <<peerList, insecure, sharedKeyFlag, handlers, peers, backend,
                   attached, signalOn, listener, mainLog,
                   credSide, meshVars, roomVars>>

\* main.go:94-98  the listener the -insecure flag selects starts to serve.
Listen ==
    /\ mainPc = "listen"
    /\ listener' = ListenerMode(insecure)
    /\ mainPc' = "serving"
    /\ UNCHANGED <<peerList, insecure, sharedKeyFlag, handlers, peers, backend,
                   attached, signalOn, routes, mainLog,
                   credSide, meshVars, roomVars>>

\* main.go:94-103  ListenAndServe / ListenAndServeTLS returns an error, at once
\* or after serving: log.Err.Fatalln(err)
ListenFails ==
    /\ mainPc \in {"listen", "serving"}
    /\ listener' = "none"
    /\ mainLog' = Append(mainLog, "listen error")
    /\ mainPc' = "fatal"
    /\ UNCHANGED <<peerList, insecure, sharedKeyFlag, handlers, peers, backend,
                   attached, signalOn, routes,
                   credSide, meshVars, roomVars>>

\* main.go:86-89  the shutdown signal arrives: <-c; os.Exit(0)
SignalShutdown ==
    /\ signalOn
    /\ mainPc \in {"handle", "listen", "serving"}
    /\ listener' = "none"
    /\ mainPc' = "exited"
    /\ UNCHANGED <<peerList, insecure, sharedKeyFlag, handlers, peers, backend,
                   attached, signalOn, routes, mainLog,
                   credSide, meshVars, roomVars>>

StartupNext ==
    \/ ParseFlags
    \/ RegisterHandler
    \/ CheckPeers
    \/ SplitPeers
    \/ ConstructBackend
    \/ SetMultihomeBackend
    \/ EnableSignalShutdown
    \/ HandleRoutes
    \/ Listen
    \/ ListenFails
    \/ SignalShutdown

StartupSpec == StartupInit /\ [][StartupNext]_vars

\* ------------------------------------------------------------ the claims

\* The call of p has compared the expiry it read with the clock (line 32).
Checked(p) ==
    \/ pc[p] \in {"gen", "lock", "lockWait", "writeExp", "writeTok", "unlock", "ret"}
    \/ pc[p] = "idle" /\ err[p] # "none"

\* The call of p has read both fields under the read lock (lines 25-26).
HasRead(p) ==
    \/ pc[p] \in {"readKey", "runlock", "check"}
    \/ Checked(p)

\* p takes a step of its call.
Moves(p) == pc'[p] # pc[p]

\* The token carried by the map p's call returned.
ReturnedTok(p) == LET e == CHOOSE x \in meta[p] : TRUE IN Tail(e[2])

\* C1: a call that finds expiry - 300 < now (now as read by that call) issues a
\* new one-hour token and has stored it when it returns successfully; a call
\* that finds expiry - 300 >= now issues no token and no step of it changes the
\* stored token or expiry.
C1_Due(p) == expRead[p] - RefreshMargin < nowRead[p]
C1_State ==
    \A p \in Callers :
        /\ (err[p] = "nil" /\ C1_Due(p)) =>
              /\ minted[p] # Empty
              /\ wrote[p]
              /\ EncodedExp(minted[p]) - TokenTTL >= nowRead[p]
              /\ EncodedExp(minted[p]) - TokenTTL <= now
        /\ pc[p] = "unlock" =>
              /\ tokenStr[credOf[p]] = minted[p]
              /\ tokenExpire[credOf[p]] = EncodedExp(minted[p])
        /\ (Checked(p) /\ ~C1_Due(p)) => (minted[p] = Empty /\ ~wrote[p])
C1_Step ==
    \A p \in Callers :
        (Checked(p) /\ ~C1_Due(p) /\ Moves(p)) =>
            UNCHANGED <<tokenStr, tokenExpire>>
C1_RefreshRule == []C1_State /\ [][C1_Step]_vars

\* C1 witness: a call found the boundary case expiry - 300 = now on a token
\* issued earlier and returned without issuing, after an earlier refresh.
C1_Witness ==
    \E p \in Callers :
        /\ err[p] = "nil"
        /\ expRead[p] = TokenTTL
        /\ expRead[p] - RefreshMargin = nowRead[p]
        /\ minted[p] = Empty

\* C2: every (token, expiry) pair a call reads under the read lock is a pair
\* that was stored together: the expiry read is the expiry of the token read
\* (the initial pair is the empty token with expiry 0), whatever other calls
\* are refreshing the credential meanwhile.
C2_NoTornRead ==
    \A p \in Callers :
        HasRead(p) => expRead[p] = EncodedExp(tokRead[p])

\* C2 witness: a call read a refreshed pair while another call, which had
\* minted a different token, was in the middle of its own refresh.
C2_Witness ==
    \E p, q \in Callers :
        /\ p # q
        /\ HasRead(p) /\ tokRead[p] # Empty
        /\ pc[q] \in {"lock", "lockWait", "writeExp", "writeTok", "unlock"}
        /\ minted[q] # tokRead[p]

\* C3: a call that returns without error returns a map whose only entry is
\* authorization = "Bearer " followed by a non-empty token, the first call on
\* an empty credential included.
C3_BearerNonEmpty ==
    \A p \in Callers :
        err[p] = "nil" =>
            /\ Cardinality(meta[p]) = 1
            /\ \A e \in meta[p] :
                  /\ e[1] = "authorization"
                  /\ Head(e[2]) = "Bearer "
                  /\ Tail(e[2]) # Empty

\* C3 witness: the first call on a credential with an empty token and expiry 0
\* has returned without error.
C3_Witness ==
    \E p \in Callers :
        err[p] = "nil" /\ tokRead[p] = Empty /\ expRead[p] = 0

\* C4: when issuance fails the call returns the error with a map that has no
\* authorization entry, the call has stored nothing and its failing step leaves
\* the stored token and expiry as they were, and the caller's next call goes to
\* issuance again, unless it read a later expiry than the failed call did
\* (another call has refreshed the credential in between).
C4_State ==
    \A p \in Callers :
        /\ err[p] = "gen" =>
              /\ \A e \in meta[p] : e[1] # "authorization"
              /\ ~wrote[p]
              /\ minted[p] = Empty
        /\ (prevFailed[p] /\ Checked(p)) =>
              \/ pc[p] = "gen" \/ minted[p] # Empty \/ err[p] = "gen"
              \/ expRead[p] > prevExp[p]
C4_Step ==
    \A p \in Callers :
        (pc[p] = "gen" /\ pc'[p] = "idle") =>
            /\ err'[p] = "gen"
            /\ UNCHANGED <<tokenStr, tokenExpire>>
C4_IssuanceFailure == []C4_State /\ [][C4_Step]_vars

\* C4 witness: a call failed while a token read earlier was in hand, and the
\* caller's next call minted a token.
C4_Witness ==
    \E p \in Callers : prevFailed[p] /\ minted[p] # Empty /\ tokRead[p] # Empty

\* C5: the stored expiry is the expiry encoded in the stored token in every
\* state outside the two assignments of the write-locked section, and the two
\* fields change only in steps taken while the write lock is held and no
\* reader is inside.
C5_State ==
    (\A p \in Callers : pc[p] # "writeTok") =>
        \A c \in Creds : tokenExpire[c] = EncodedExp(tokenStr[c])
C5_Step ==
    \A c \in Creds :
        (tokenStr'[c] # tokenStr[c] \/ tokenExpire'[c] # tokenExpire[c]) =>
            /\ lWriter[c] # None
            /\ lWriter'[c] = lWriter[c]
            /\ lReaders[c] = {}
C5_FieldsTogether == []C5_State /\ [][C5_Step]_vars

\* C5 witness: two calls had each minted a token of their own and one of them
\* has stored its pair.
C5_Witness ==
    \E p, q \in Callers :
        /\ p # q
        /\ minted[p] # Empty /\ minted[q] # Empty /\ minted[p] # minted[q]
        /\ wrote[p] /\ pc[p] = "ret" /\ pc[q] = "lock"

\* C6: the token a successful call returns had not expired at the clock value
\* the call compared it with: it is the token read with at least 300 seconds
\* left, or the token the call itself minted.
C6_ReturnedNotExpired ==
    \A p \in Callers :
        err[p] = "nil" =>
            /\ meta[p] # {}
            /\ EncodedExp(ReturnedTok(p)) > nowRead[p]
            /\ \/ /\ minted[p] = Empty
                  /\ ReturnedTok(p) = tokRead[p]
                  /\ EncodedExp(ReturnedTok(p)) - RefreshMargin >= nowRead[p]
               \/ /\ minted[p] # Empty
                  /\ ReturnedTok(p) = minted[p]

\* C6 witness: a call returned the stored token without minting, after another
\* call had replaced the stored token since it was read.
C6_Witness ==
    \E p \in Callers :
        /\ err[p] = "nil" /\ minted[p] = Empty
        /\ tokenStr[credOf[p]] # tokRead[p]

\* C8: RequireTransportSecurity has returned true every time it was asked,
\* whatever the stored token and expiry were.
C8_TransportSecurity == \A b \in rtsSeen : b = TRUE

\* C8 witness: it was asked on a credential that holds a refreshed token.
C8_Witness ==
    /\ rtsSeen # {}
    /\ \E c \in Creds : tokenStr[c] # Empty /\ tokenExpire[c] > TokenTTL

\* C7: under fair scheduling every call that has begun returns; a caller holds
\* the read lock only inside lines 24-28, has released it before it asks for
\* the write lock, and holds no lock while it waits for one.
C7_LockDiscipline ==
    \A p \in Callers :
        /\ p \in lReaders[credOf[p]] =>
              pc[p] \in {"rlockWait", "readExp", "readTok", "readKey", "runlock"}
        /\ lWriter[credOf[p]] = p =>
              pc[p] \in {"writeExp", "writeTok", "unlock"}
        /\ pc[p] \in {"rlock", "lock", "lockWait"} =>
              \A c \in Creds : p \notin lReaders[c] /\ lWriter[c] # p
        /\ pc[p] = "rlockWait" => \A c \in Creds : lWriter[c] # p /\ lPending[c] # p
C7_EveryCallReturns ==
    /\ []C7_LockDiscipline
    /\ \A p \in Callers : (pc[p] # "idle") ~> (pc[p] = "idle")

\* C7 witness: one caller waits inside l.Lock for the other, which is inside
\* the read section of the same credential and will find it due.
C7_Witness ==
    \E p, q \in Callers :
        /\ p # q
        /\ pc[p] = "lockWait"
        /\ pc[q] = "runlock" /\ q \in lReaders[credOf[p]]
        /\ expRead[q] - RefreshMargin < now

\* The fan-out of event e is over: every Propagate call started for it has been
\* made and served or has failed.
Complete(e) ==
    /\ origin[e] # None
    /\ \A t \in tasks \cup wire : t.ev # e

\* C9: a Broadcast issued on instance A invokes deliverToAll exactly once on
\* every reachable peer; only the instance whose client sent the event ever
\* propagates it, and serving a propagated event starts no propagation, so no
\* event goes further than from its origin to a peer.
C9_State ==
    \A e \in Events :
        origin[e] # None =>
            /\ \A t \in tasks \cup wire \cup logged :
                  t.ev = e => (t.from = origin[e] /\ t.to # origin[e])
            /\ \A b \in Instances \ {origin[e]} :
                  /\ delivAll[b][e] <= 1
                  /\ (Complete(e) /\ reachable[b]) => delivAll[b][e] = 1
C9_Step ==
    /\ (wire' # wire /\ wire' \subseteq wire) => tasks' = tasks
    /\ \A t \in tasks' \ tasks :
          /\ nextEv' = nextEv + 1
          /\ t.ev = nextEv
          /\ t.from = origin'[t.ev]
C9_BroadcastOncePerPeer == []C9_State /\ [][C9_Step]_vars

\* C9 witness: the fan-out of an event is over and each of the two peers of its
\* origin has had deliverToAll invoked once.
C9_Witness ==
    \E e \in Events :
        /\ Complete(e)
        /\ \A b \in Instances \ {origin[e]} :
              reachable[b] /\ delivAll[b][e] = 1

\* C10: when peer B is out of reach while A broadcasts, the call to every other
\* peer C is still made and C's local sockets each receive the event once; the
\* failure for B is logged, nothing is handed back to the handler, and the
\* backend's peer connections stay as they were.
C10_State ==
    /\ raised = {}
    /\ peerConns = [i \in Instances |-> Instances \ {i}]
    /\ \A e \in Events : \A b, c \in Instances :
          (/\ Complete(e)
           /\ b # c /\ b # origin[e] /\ c # origin[e]
           /\ ~reachable[b] /\ reachable[c]) =>
              /\ delivAll[c][e] = 1
              /\ \A x \in Sockets : HomeOf(x) = c => emitted[x][e] = 1
              /\ delivAll[b][e] = 0
              /\ \E t \in logged :
                    t.from = origin[e] /\ t.to = b /\ t.ev = e
C10_Step ==
    logged' # logged =>
        /\ \E t \in tasks : logged' = logged \cup {t} /\ tasks' = tasks \ {t}
        /\ wire' = wire
C10_PeerFailureIsolated == []C10_State /\ [][C10_Step]_vars

\* C10 witness: A broadcast while B was out of reach and C was not; the fan-out
\* is over, the call to B is in the log and C has delivered.
C10_Witness ==
    \E e \in Events :
        /\ Complete(e) /\ origin[e] = "A"
        /\ ~reachable["B"] /\ reachable["C"]
        /\ \E t \in logged : t.to = "B" /\ t.ev = e
        /\ emitted["c1"][e] = 1 /\ emitted["c2"][e] = 1

(***************************************************************************)
(* Roomcast across the mesh.                                               *)
(***************************************************************************)

\* The sockets that are members of room r.
Members(r) == {x \in Sockets : r \in inRoom[x]}

\* C11: with three fully peered instances, a roomcast to room R handled on one
\* of them is delivered exactly once to each member of R on the two peers and
\* to the origin's own local members of R, to no socket outside R, and no peer
\* propagates it to the other peer or back to the origin.
C11_State ==
    \A e \in Events :
        evRoom[e] # None =>
            /\ \A t \in tasks \cup wire \cup logged \cup rejected :
                  t.ev = e =>
                      /\ t.from = origin[e] /\ t.to # origin[e]
                      /\ t.kind = "Roomcast"
                      /\ t.target = evRoom[e]
            /\ \A x \in Sockets \ Members(evRoom[e]) : emitted[x][e] = 0
            /\ \A x \in Members(evRoom[e]) :
                  /\ emitted[x][e] <= 1
                  /\ HomeOf(x) = origin[e] => emitted[x][e] = 1
                  /\ Complete(e) => emitted[x][e] = 1
            /\ \A i \in Instances :
                  /\ delivAll[i][e] = 0
                  /\ delivRoom[i][e] <= 1
                  /\ Complete(e) => delivRoom[i][e] = 1
C11_Step ==
    /\ (wire' # wire /\ wire' \subseteq wire) => tasks' = tasks
    /\ \A t \in tasks' \ tasks :
          /\ nextEv' = nextEv + 1
          /\ t.ev = nextEv
          /\ t.from = origin'[t.ev]
          /\ Cardinality({u \in tasks' \ tasks : u.to = t.to}) = 1
C11_RoomcastOncePerMember == []C11_State /\ [][C11_Step]_vars

\* C11 witness: a roomcast from A to a room with a member on A, on B and on C
\* and a socket of C outside it is over; each member has the event once and the
\* socket outside has nothing.
C11_Witness ==
    \E e \in Events :
        /\ Complete(e) /\ origin[e] = "A" /\ evRoom[e] = "lobby"
        /\ Members("lobby") = {"a1", "b1", "c1"}
        /\ emitted["a1"][e] = 1 /\ emitted["b1"][e] = 1
        /\ emitted["c1"][e] = 1 /\ emitted["c2"][e] = 0

(***************************************************************************)
(* Instances with different shared secrets.                                *)
(***************************************************************************)

\* C12: when instances A and B hold different shared secrets, B refuses the
\* token of A's Propagate call and delivers nothing for it to its local
\* sockets; A's call to a peer with A's secret is delivered as usual, and calls
\* B receives with a token of its own secret are delivered whatever it refused
\* before.
C12_State ==
    \A e \in Events : \A b \in Instances :
        (origin[e] # None /\ b # origin[e]) =>
            IF secret[origin[e]] # secret[b]
              THEN /\ delivAll[b][e] = 0
                   /\ \A x \in Sockets : HomeOf(x) = b => emitted[x][e] = 0
                   /\ Complete(e) =>
                          \E m \in rejected :
                              m.ev = e /\ m.from = origin[e] /\ m.to = b
              ELSE /\ \A m \in rejected : ~(m.ev = e /\ m.to = b)
                   /\ delivAll[b][e] <= 1
                   /\ Complete(e) =>
                          /\ delivAll[b][e] = 1
                          /\ \A x \in Sockets :
                                HomeOf(x) = b => emitted[x][e] = 1
C12_Step ==
    rejected' # rejected =>
        /\ \E m \in wire : rejected' = rejected \cup {m} /\ wire' = wire \ {m}
        /\ UNCHANGED <<tasks, delivAll, delivRoom, emitted, secret, peerConns>>
C12_SecretMismatchRejected == []C12_State /\ [][C12_Step]_vars

\* C12 witness: B's secret differs from the one A and C share; A's broadcast
\* was refused by B and delivered by C, and a broadcast from C was likewise
\* delivered by A and refused by B.
C12_Witness ==
    /\ secret["A"] # secret["B"] /\ secret["A"] = secret["C"]
    /\ \E e \in Events :
          /\ Complete(e) /\ origin[e] = "A"
          /\ \E m \in rejected : m.ev = e /\ m.to = "B"
          /\ delivAll["B"][e] = 0 /\ emitted["b1"][e] = 0
          /\ delivAll["C"][e] = 1 /\ emitted["c1"][e] = 1
    /\ \E e \in Events :
          /\ Complete(e) /\ origin[e] = "C"
          /\ delivAll["A"][e] = 1 /\ delivAll["B"][e] = 0

(***************************************************************************)
(* One credential per peer connection.                                     *)
(***************************************************************************)

\* The stored fields and the lock of credential c.
CredState(c) ==
    <<tokenStr[c], tokenExpire[c], sharedKey[c],
      lReaders[c], lRWait[c], lPending[c], lWriter[c]>>

\* No other caller calls the credential p calls.
Alone(p) == \A q \in Callers \ {p} : credOf[q] # credOf[p]

\* Caller p is kept waiting for its credential's lock.
Blocked(p) ==
    \/ pc[p] = "rlockWait" /\ p \notin lReaders[credOf[p]]
    \/ pc[p] = "lockWait" /\ lReaders[credOf[p]] # {}

\* C13: each peer connection has its own credential with its own lock.  A call
\* on one credential reads and writes only that credential's token, expiry and
\* lock, and a call never waits for that lock unless another call on the same
\* credential has it: a refresh in progress on one credential neither blocks
\* nor changes a call on another.
C13_State ==
    \A p \in Callers :
        /\ pc[p] \in {"rlockWait", "lockWait"} => ~Alone(p)
        /\ Blocked(p) =>
              \E q \in Callers \ {p} :
                  /\ credOf[q] = credOf[p]
                  /\ q \in lReaders[credOf[p]] \/ lWriter[credOf[p]] = q
                        \/ lPending[credOf[p]] = q
        /\ Alone(p) =>
              /\ lReaders[credOf[p]] \subseteq {p}
              /\ lRWait[credOf[p]] = {}
              /\ lPending[credOf[p]] = None
              /\ lWriter[credOf[p]] \in {None, p}
              /\ pc[p] \in {"writeTok", "unlock", "ret"} =>
                    tokenExpire[credOf[p]] = exp[p]
              /\ pc[p] = "ret" => tokenStr[credOf[p]] = tok[p]
C13_Step ==
    \A p \in Callers :
        Moves(p) =>
            /\ \A c \in Creds \ {credOf[p]} : CredState(c)' = CredState(c)
            /\ credOf' = credOf
            /\ pc[p] = "readExp" => exp'[p] = tokenExpire[credOf[p]]
            /\ pc[p] = "readTok" => tok'[p] = tokenStr[credOf[p]]
            /\ pc[p] = "readKey" => key'[p] = sharedKey[credOf[p]]
            /\ (Alone(p) /\ pc[p] = "rlock") => pc'[p] = "readExp"
            /\ (Alone(p) /\ pc[p] = "lock") => pc'[p] = "writeExp"
C13_CredentialsIndependent == []C13_State /\ [][C13_Step]_vars

\* C13 witness: g1 is inside the write-locked section of credB, its new expiry
\* stored, while g2 has taken the read lock of credC, whose fields are still
\* the initial ones.
C13_Witness ==
    /\ credOf["g1"] = "credB" /\ credOf["g2"] = "credC"
    /\ pc["g1"] = "writeTok" /\ lWriter["credB"] = "g1"
    /\ pc["g2"] = "readExp" /\ "g2" \in lReaders["credC"]
    /\ tokenExpire["credB"] = TokenTTL + now /\ tokenExpire["credC"] = 0

(***************************************************************************)
(* The refresh and the write lock.                                         *)
(***************************************************************************)

\* C14: a call that finds the credential due issues the new token while it
\* holds the write lock: the comparison of line 32 that finds the token due and
\* the issuance of line 33 are steps of the holder of the write lock, as the
\* stores of lines 43-44 are.
C14_IssuedUnderWriteLock ==
    [][\A p \in Callers :
          (Moves(p) /\ pc[p] \in {"check", "gen", "writeExp", "writeTok"}
                    /\ pc'[p] # "ret") =>
              lWriter[credOf[p]] = p]_vars

\* C15: the stored token and expiry change only in the steps of lines 43-44,
\* taken by the caller that holds the write lock after it issued a token; no
\* other step of a call, and no call on the no-refresh or the error path,
\* changes them, and the shared secret never changes.
C15_State ==
    /\ sharedKey = [c \in Creds |-> "k1"]
    /\ \A p \in Callers :
          (Checked(p) /\ minted[p] = Empty) => ~wrote[p]
C15_Step ==
    /\ sharedKey' = sharedKey
    /\ \A c \in Creds :
          (tokenStr'[c] # tokenStr[c] \/ tokenExpire'[c] # tokenExpire[c]) =>
              \E p \in Callers :
                  /\ credOf[p] = c /\ lWriter[c] = p /\ Moves(p)
                  /\ pc[p] \in {"writeExp", "writeTok"}
                  /\ minted[p] # Empty
    /\ \A p \in Callers :
          (Moves(p) /\ pc[p] \notin {"writeExp", "writeTok"}) =>
              (tokenStr' = tokenStr /\ tokenExpire' = tokenExpire)
C15_OnlyWriteSectionStores == []C15_State /\ [][C15_Step]_vars

\* C15 witness: one call stored a token it issued, another call on the same
\* credential has ended on the error path, and the stored token and expiry are
\* those the first call stored.
C15_Witness ==
    \E p, q \in Callers :
        /\ p # q /\ credOf[p] = credOf[q]
        /\ pc[p] = "idle" /\ err[p] = "nil" /\ wrote[p]
        /\ pc[q] = "idle" /\ err[q] = "gen" /\ ~wrote[q]
        /\ tokenStr[credOf[p]] = minted[p]
        /\ tokenExpire[credOf[p]] = EncodedExp(minted[p])

\* C16: of the calls in progress together that read the same stored expiry and
\* found it due, at most one issues a token.
C16_OneIssuer ==
    \A p, q \in Callers :
        (/\ p # q
         /\ credOf[p] = credOf[q]
         /\ pc[p] # "idle" /\ pc[q] # "idle"
         /\ expRead[p] = expRead[q]) =>
            ~(minted[p] # Empty /\ minted[q] # Empty)

\* C17: the stored expiry never decreases, and the stored token is never
\* replaced by one that expires sooner.
C17_ExpiryMonotone ==
    [][\A c \in Creds :
          /\ tokenExpire'[c] >= tokenExpire[c]
          /\ (tokenStr[c] # Empty /\ tokenStr'[c] # tokenStr[c]) =>
                EncodedExp(tokenStr'[c]) >= EncodedExp(tokenStr[c])]_vars

(***************************************************************************)
(* Startup of the example.                                                 *)
(***************************************************************************)

\* C18: with an empty peer list main logs an error and returns before any
\* backend is constructed, before SetMultihomeBackend and before any HTTP
\* listener is started.  With a non-empty list the -insecure flag selects the
\* insecure backend together with plain HTTP, and its absence the TLS backend
\* with the shared key together with HTTPS; the two are never mixed.
C18_State ==
    /\ peerList = << >> =>
          /\ backend = NoBackend /\ peers = << >>
          /\ ~attached /\ ~signalOn /\ routes = {} /\ listener = "none"
          /\ mainPc \in {"parse", "register", "checkPeers", "returned"}
          /\ mainPc = "returned" =>
                mainLog = << "must provide peers to connect to" >>
    /\ peerList # << >> =>
          /\ mainPc # "returned"
          /\ backend # NoBackend =>
                /\ backend.peers = peers /\ peers # << >>
                /\ insecure => (backend.kind = "insecure" /\ backend.key = None)
                /\ ~insecure =>
                      (backend.kind = "tls" /\ backend.key = sharedKeyFlag)
          /\ attached => backend # NoBackend
          /\ listener # "none" =>
                /\ attached
                /\ insecure => (listener = "http" /\ backend.kind = "insecure")
                /\ ~insecure => (listener = "https" /\ backend.kind = "tls")
          /\ mainPc = "serving" => listener # "none"
C18_Step ==
    /\ backend' # backend =>
          (backend = NoBackend /\ ~attached /\ listener = "none"
             /\ Len(handlers) = Len(HandlerEvents))
    /\ attached' # attached => (~attached /\ listener = "none")
    /\ UNCHANGED <<peerList, insecure, sharedKeyFlag>>
C18_StartupSelection == []C18_State /\ [][C18_Step]_vars

\* C18 witness: main was started without peers; it has registered its fourteen
\* handlers, logged the error and returned, with no backend and no listener.
C18_Witness ==
    /\ peerList = << >> /\ mainPc = "returned"
    /\ handlers = HandlerEvents
    /\ mainLog = << "must provide peers to connect to" >>
    /\ backend = NoBackend /\ ~attached /\ listener = "none"

====
